---- MODULE Spec2Model ----
(***************************************************************************)
(* Gallery synchronisation of main.py: the gallery table (class Image),    *)
(* the /update-gallery handler (update_gallery), the /update-img-week      *)
(* handler (update_img_week) and the /gallery read (get_all_images).       *)
(*                                                                         *)
(* Every db.session.commit() of a handler is one step, so the states       *)
(* between two commits of one request are states of the model.             *)
(***************************************************************************)
EXTENDS Integers, Sequences, FiniteSets

\* ------------------------------------------------------------------ bounds
\* longest catalog ("items" array) a fetch returns
MaxCatalog == 2
\* largest week number a form or a query string carries
MaxWeek == 2
\* primary keys the gallery table hands out are 1..MaxRowId
MaxRowId == 2

\* sys.id values of the remote catalog (opaque strings)
AssetIds == {"a1", "a2"}
\* revisions of a remote asset: its fileName, url and createdAt at one moment
Revs == {"v1", "v2"}

\* ------------------------------------------------------------ data model
\* Image.week is nullable: a row never tagged holds NULL (Python None)
None == -1

Range(s) == {s[i] : i \in DOMAIN s}

\* one element of content["items"]: sys.id, sys.createdAt, fields.file.*;
\* fields is <<>> when the item carries no "fields" object
Item(a, r, hasFile) ==
  [sys |-> [id |-> a, createdAt |-> <<"createdAt", r>>],
   fields |-> IF hasFile
              THEN <<[file |-> [fileName |-> <<"fileName", r>>, url |-> <<"url", r>>]]>>
              ELSE <<>>]

\* a well-formed item per (id, revision), and one item without fields per id
Items ==
  {Item(a, r, TRUE) : a \in AssetIds, r \in Revs} \cup {Item(a, "v1", FALSE) : a \in AssetIds}

\* the items of the first revision, with and without fields
FirstRevItems == {Item(a, "v1", f) : a \in AssetIds, f \in BOOLEAN}

\* the catalogs response.json()["items"] ranges over: every catalog when the
\* admin requests run one at a time, the catalogs of one revision when they overlap
Catalogs(single) ==
  UNION {[1..n -> IF single THEN Items ELSE FirstRevItems] : n \in 0..MaxCatalog}

VARIABLES
  mirror,       \* the gallery table: rows in insertion order
  rpc,          \* update_gallery: position of the request
  content,      \* update_gallery: content["items"]
  image_db,     \* update_gallery: image_db = Image.query.all(), the id and asset_id read
  ri,           \* update_gallery: index of the running for loop
  rerun,        \* update_gallery: this pass follows a pass on the same catalog
  lastFetched,  \* sys.id set of the most recent successful fetch
  tpc,          \* update_img_week: position of the request
  t_dirty,      \* update_img_week: primary keys the session holds a new week for
  tweek,        \* update_img_week: request.form["week"]
  view,         \* get_all_images: <<template arguments>> of the rendered page, else <<>>
  singleFlight  \* whether the deployment serialises the two admin requests

vars == <<mirror, rpc, content, image_db, ri, rerun, lastFetched,
          tpc, t_dirty, tweek, view, singleFlight>>

ExtIds(m) == {m[i].asset_id : i \in DOMAIN m}
RowIds(m) == {m[i].id : i \in DOMAIN m}
ItemIds(c) == {c[i].sys.id : i \in DOMAIN c}

\* ------------------------------------------------------- update_gallery
\* id_collection = [image["sys"]["id"] for image in content["items"]]
IdCollection(c) == [i \in DOMAIN c |-> c[i].sys.id]

\* the delete loop left out: no row is ever removed
ShouldDeleteKeepAll(image, id_collection) == FALSE

\* the membership test lost: every row is removed and inserted anew
ShouldDeleteAlways(image, id_collection) == TRUE

\* if image.asset_id not in id_collection
ShouldDelete(image, id_collection) == image.asset_id \notin Range(id_collection)

\* db.session.delete(image); db.session.commit()
DeleteRow(m, image) == SelectSeq(m, LAMBDA row : row.id # image.id)

\* the lookup never finds a row: every item is inserted
firstNeverFinds(m, asset_id) == 0

\* Image.query.filter_by(asset_id=...).first(): index of the first match, 0 for None
first(m, asset_id) ==
  IF \E i \in DOMAIN m : m[i].asset_id = asset_id
  THEN CHOOSE i \in DOMAIN m :
         /\ m[i].asset_id = asset_id
         /\ \A j \in DOMAIN m : m[j].asset_id = asset_id => i <= j
  ELSE 0

\* Image(name=..., asset_id=..., url=..., created=...): week is left NULL
NewImage(image, newid) ==
  [id |-> newid,
   name |-> image.fields[1].file.fileName,
   asset_id |-> image.sys.id,
   url |-> image.fields[1].file.url,
   created |-> image.sys.createdAt,
   week |-> None]

\* primary keys the table may give a new row: any key no live row holds
NewIds(m) == (1..MaxRowId) \ RowIds(m)

\* the else branch refreshing the stored row from the remote item
ExistingRowRefreshed(m, search, image) ==
  IF image.fields = <<>>
  THEN m
  ELSE [m EXCEPT ![search].name = image.fields[1].file.fileName,
                 ![search].url = image.fields[1].file.url,
                 ![search].created = image.sys.createdAt]

\* else: pass
ExistingRow(m, search, image) == m

\* position after a for loop over s whose index i has just been handled
AfterLoop(i, s, inLoop, after) == IF i < Len(s) THEN inLoop ELSE after
NextIndex(i, s) == IF i < Len(s) THEN i + 1 ELSE 1

\* image_db = Image.query.all(): of each row, what update_gallery reads
QueryAll(m) == [i \in DOMAIN m |-> [id |-> m[i].id, asset_id |-> m[i].asset_id]]

\* the first loop with work to do after the fetch
AfterFetch(m, c) == IF m # <<>> THEN "delete" ELSE IF c # <<>> THEN "insert" ELSE "done"

\* lines 278-283, the fetch succeeds: content, id_collection, image_db
FetchOk ==
  /\ rpc = "idle" /\ view = <<>>
  /\ singleFlight => tpc = "idle"
  /\ \E c \in Catalogs(singleFlight) :
       /\ content' = c
       /\ lastFetched' = ItemIds(c)
       /\ rpc' = AfterFetch(mirror, c)
  /\ rerun' = FALSE
  /\ image_db' = QueryAll(mirror)
  /\ ri' = 1
  /\ UNCHANGED <<mirror, tpc, t_dirty, tweek, view, singleFlight>>

\* line 304 (or the KeyError response) and lines 278-283 of the next request:
\* the pass is over, update_gallery is requested again and the fetch returns
\* the same catalog
FetchSameAgain ==
  /\ rpc \in {"done", "apply_failed"} /\ view = <<>>
  /\ singleFlight => tpc = "idle"
  /\ rpc' = AfterFetch(mirror, content)
  /\ rerun' = TRUE
  /\ image_db' = QueryAll(mirror)
  /\ ri' = 1
  /\ UNCHANGED <<mirror, content, lastFetched, tpc, t_dirty, tweek, view, singleFlight>>

\* a failed fetch taken for an empty catalog: the table is drained
FetchFailedAsEmpty ==
  /\ rpc = "idle" /\ view = <<>>
  /\ singleFlight => tpc = "idle"
  /\ rpc' = "fetch_failed"
  /\ mirror' = <<>>
  /\ UNCHANGED <<content, image_db, ri, rerun, lastFetched,
                 tpc, t_dirty, tweek, view, singleFlight>>

\* lines 278-282 raise: requests.get, response.json(), content["items"] or
\* image["sys"]["id"] fails before any row is touched
FetchFailed ==
  /\ rpc = "idle" /\ view = <<>>
  /\ singleFlight => tpc = "idle"
  /\ rpc' = "fetch_failed"
  /\ UNCHANGED <<mirror, content, image_db, ri, rerun, lastFetched,
                 tpc, t_dirty, tweek, view, singleFlight>>

\* lines 285-288: one iteration of the delete loop
DeleteStep ==
  /\ rpc = "delete"
  /\ mirror' = IF ShouldDelete(image_db[ri], IdCollection(content))
               THEN DeleteRow(mirror, image_db[ri])
               ELSE mirror
  /\ rpc' = AfterLoop(ri, image_db, "delete", IF content # <<>> THEN "insert" ELSE "done")
  /\ ri' = NextIndex(ri, image_db)
  /\ UNCHANGED <<content, image_db, rerun, lastFetched, tpc, t_dirty, tweek, view, singleFlight>>

\* lines 290-302: one iteration of the insert loop
InsertStep ==
  /\ rpc = "insert"
  /\ LET image == content[ri]
         search == first(mirror, image.sys.id)
     IN IF search = 0 /\ image.fields = <<>>
        THEN \* image["fields"] raises KeyError
             /\ rpc' = "apply_failed"
             /\ UNCHANGED <<mirror, ri>>
        ELSE /\ \E newid \in IF search = 0 THEN NewIds(mirror) ELSE {0} :
                  mirror' = IF search = 0
                            THEN Append(mirror, NewImage(image, newid))
                            ELSE ExistingRow(mirror, search, image)
             /\ rpc' = AfterLoop(ri, content, "insert", "done")
             /\ ri' = NextIndex(ri, content)
  /\ UNCHANGED <<content, image_db, rerun, lastFetched, tpc, t_dirty, tweek, view, singleFlight>>

\* line 304, or the error response: the request is over, its locals are gone
ReconcileReturn ==
  /\ rpc \in {"done", "fetch_failed", "apply_failed"}
  /\ rpc' = "idle"
  /\ content' = <<>>
  /\ image_db' = <<>>
  /\ ri' = 1
  /\ rerun' = FALSE
  /\ UNCHANGED <<mirror, lastFetched, tpc, t_dirty, tweek, view, singleFlight>>

\* ------------------------------------------------------ update_img_week
\* EditImageWeek: IntegerField with DataRequired; a GET, a missing field and
\* the week 0 do not validate
validate_on_submit(week) == week # None /\ week # 0

\* the week test lost: every row is marked
DirtyAll(images) == {images[i].id : i \in DOMAIN images}

\* for image in image_db: if image.week is None: image.week = request.form["week"]
Dirty(images) == {images[i].id : i \in {j \in DOMAIN images : images[j].week = None}}

\* lines 310-318: the form is checked, the rows are read and marked
TagSubmit ==
  /\ tpc = "idle" /\ view = <<>>
  /\ singleFlight => rpc = "idle"
  /\ \E week \in {None} \cup (0..MaxWeek) :
       IF validate_on_submit(week)
       THEN /\ tpc' = "loaded"
            /\ t_dirty' = Dirty(mirror)
            /\ tweek' = week
       ELSE /\ tpc' = "form"
            /\ UNCHANGED <<t_dirty, tweek>>
  /\ UNCHANGED <<mirror, rpc, content, image_db, ri, rerun, lastFetched, view, singleFlight>>

\* the UPDATE without its WHERE clause
FlushAllRows(m, dirty, week) == [i \in DOMAIN m |-> [m[i] EXCEPT !.week = week]]

\* the flush of the session: UPDATE gallery SET week = ? WHERE gallery.id = ?
\* for each marked row; a key whose row is gone matches nothing
Flush(m, dirty, week) ==
  [i \in DOMAIN m |-> IF m[i].id \in dirty THEN [m[i] EXCEPT !.week = week] ELSE m[i]]

\* what db.session.commit() may do: the flush is applied, or, when a marked
\* row is gone and the driver reports the row count, StaleDataError rolls back
CommitOutcomes(m, dirty) ==
  IF dirty \subseteq RowIds(m) THEN {"done"} ELSE {"done", "stale"}

\* line 320: db.session.commit()
TagCommit ==
  /\ tpc = "loaded"
  /\ \E outcome \in CommitOutcomes(mirror, t_dirty) :
       /\ tpc' = outcome
       /\ mirror' = IF outcome = "done" THEN Flush(mirror, t_dirty, tweek) ELSE mirror
  /\ UNCHANGED <<rpc, content, image_db, ri, rerun, lastFetched, t_dirty, tweek, view, singleFlight>>

\* lines 321-323, or the error response
TagReturn ==
  /\ tpc \in {"done", "stale", "form"}
  /\ tpc' = "idle"
  /\ t_dirty' = {}
  /\ tweek' = None
  /\ UNCHANGED <<mirror, rpc, content, image_db, ri, rerun, lastFetched, view, singleFlight>>

\* ------------------------------------------------------- get_all_images
\* SELECT DISTINCT week: each value once, in an order the database picks
distinct(m) ==
  LET S == {m[i].week : i \in DOMAIN m}
  IN {s \in [1..Cardinality(S) -> S] : Range(s) = S}

\* [image for image in images if image.week == request.args.get("week")]
week_images(images, week) == SelectSeq(images, LAMBDA image : image.week = week)

\* choice(images), "" (here <<>>) on IndexError
rnd_images(images) == IF images = <<>> THEN {<<>>} ELSE {<<images[i]>> : i \in DOMAIN images}

\* lines 259-272, read while no admin request is running
GetAllImages ==
  /\ view = <<>> /\ rpc = "idle" /\ tpc = "idle"
  /\ \E week \in {None} \cup (0..MaxWeek), weeks_list \in distinct(mirror),
        rnd_image \in rnd_images(mirror) :
       view' = <<[week |-> week,
                  files |-> week_images(mirror, week),
                  bg_image |-> rnd_image,
                  weeks |-> weeks_list]>>
  /\ UNCHANGED <<mirror, rpc, content, image_db, ri, rerun, lastFetched,
                 tpc, t_dirty, tweek, singleFlight>>

\* the page is sent
GalleryReturn ==
  /\ view # <<>>
  /\ view' = <<>>
  /\ UNCHANGED <<mirror, rpc, content, image_db, ri, rerun, lastFetched,
                 tpc, t_dirty, tweek, singleFlight>>

\* ------------------------------------------------------- specifications
InitLocals ==
  /\ mirror = <<>>
  /\ rpc = "idle" /\ content = <<>> /\ image_db = <<>> /\ ri = 1 /\ rerun = FALSE
  /\ lastFetched = {}
  /\ tpc = "idle" /\ t_dirty = {} /\ tweek = None
  /\ view = <<>>

\* db.create_all() on a new database; one admin request at a time
Init == InitLocals /\ singleFlight = TRUE

\* the same, with one update_gallery and one update_img_week free to overlap
InitConcurrent == InitLocals /\ singleFlight = FALSE

Next ==
  \/ FetchOk
  \/ FetchSameAgain
  \/ FetchFailed
  \/ DeleteStep
  \/ InsertStep
  \/ ReconcileReturn
  \/ TagSubmit
  \/ TagCommit
  \/ TagReturn
  \/ GetAllImages
  \/ GalleryReturn

Spec == Init /\ [][Next]_vars

SpecConcurrent == InitConcurrent /\ [][Next]_vars

\* ---------------------------------------------------------------- claims
\* C1: when a pass of update_gallery whose fetch succeeded has completed, the
\* asset_id set of the gallery table is exactly the sys.id set of the fetched
\* catalog; an empty catalog leaves the table empty.
SetCorrectness == rpc = "done" => ExtIds(mirror) = ItemIds(content)

\* a completed pass that drained a non-empty table against an empty catalog
SetCorrectness_witness ==
  rpc = "done" /\ content = <<>> /\ image_db # <<>> /\ mirror = <<>>

\* a step of a pass that follows a pass on the same catalog
RerunStep == (rerun /\ rpc \in {"delete", "insert"}) => mirror' = mirror

\* C2: a pass that repeats the completed previous pass on the same catalog
\* deletes nothing and inserts nothing: none of its steps changes the table,
\* so at its end every row is as the first pass left it.
Idempotence == [][RerunStep]_vars

\* a completed repeat pass over a catalog of two assets and a table of two rows
Idempotence_witness ==
  rerun /\ rpc = "done" /\ Len(mirror) = 2 /\ Len(content) = 2

\* a step of a running pass keeps every row whose asset_id the catalog lists
FrameStep ==
  rpc \in {"delete", "insert"} =>
     \A i \in DOMAIN mirror :
        mirror[i].asset_id \in ItemIds(content) =>
           \E j \in DOMAIN mirror' : mirror'[j] = mirror[i]

\* C3: no step of update_gallery changes or removes a row whose asset_id is in
\* the fetched catalog: id, name, url, created and week stay as they were, so
\* a tagged row keeps its week over any number of passes that list it.
FramePreservation == [][FrameStep]_vars

\* a completed pass over a tagged row whose remote fileName, url and createdAt
\* all differ from the stored ones
FramePreservation_witness ==
  /\ rpc = "done"
  /\ \E i \in DOMAIN mirror, k \in DOMAIN content :
       /\ mirror[i].week # None
       /\ content[k].sys.id = mirror[i].asset_id
       /\ content[k].fields # <<>>
       /\ content[k].fields[1].file.fileName # mirror[i].name
       /\ content[k].fields[1].file.url # mirror[i].url
       /\ content[k].sys.createdAt # mirror[i].created

\* a step of update_img_week up to its commit: only the commit writes, and it
\* writes the submitted week into the rows whose week is NULL
TagStep ==
  (tpc \in {"idle", "loaded"} /\ tpc' # tpc) =>
     /\ Len(mirror') = Len(mirror)
     /\ \A i \in DOMAIN mirror :
          mirror'[i] = IF tpc = "loaded" /\ mirror[i].week = None
                       THEN [mirror[i] EXCEPT !.week = tweek]
                       ELSE mirror[i]

\* C4: the commit of update_img_week gives the submitted week to exactly the
\* rows whose week was NULL and leaves every other field and every tagged row
\* as they were; it adds and removes no row; a request that does not validate
\* and the reading of the rows change nothing.
FirstWriteWins == [][TagStep]_vars

\* a committed tagging with week 2 beside a row that keeps its earlier week 1
FirstWriteWins_witness ==
  /\ tpc = "done" /\ tweek = 2
  /\ \E i, j \in DOMAIN mirror :
       /\ mirror[i].week = 1 /\ mirror[i].id \notin t_dirty
       /\ mirror[j].week = 2 /\ mirror[j].id \in t_dirty

\* the step into the error outcome, and any step taken while the request is there
FailedFetchStep ==
  ((rpc = "idle" /\ rpc' = "fetch_failed") \/ rpc = "fetch_failed") => mirror' = mirror

\* C5: a pass whose fetch fails ends in the error outcome with the table as it
\* was: no step from the start of the request to its error response changes
\* a row.
FetchFailureLeavesMirror == [][FailedFetchStep]_vars

\* a failed fetch over a non-empty table
FetchFailureLeavesMirror_witness == rpc = "fetch_failed" /\ mirror # <<>>

\* C6: no two rows share an asset_id, and a completed pass has inserted, for
\* each new sys.id of its catalog, one row carrying the fields of the first
\* item with that id and no week.
UniqueExternalId ==
  /\ \A i, j \in DOMAIN mirror : mirror[i].asset_id = mirror[j].asset_id => i = j
  /\ rpc = "done" =>
       \A i \in DOMAIN mirror :
          mirror[i].asset_id \notin ExtIds(image_db) =>
             LET k == CHOOSE k \in DOMAIN content :
                        /\ content[k].sys.id = mirror[i].asset_id
                        /\ \A l \in DOMAIN content :
                             content[l].sys.id = mirror[i].asset_id => k <= l
             IN mirror[i] = NewImage(content[k], mirror[i].id)

\* a completed pass whose catalog held one new sys.id twice, in two revisions
UniqueExternalId_witness ==
  /\ rpc = "done" /\ Len(content) = 2
  /\ content[1].sys.id = content[2].sys.id
  /\ content[1] # content[2]
  /\ content[1].sys.id \notin ExtIds(image_db)
  /\ content[1].sys.id \in ExtIds(mirror)

\* C7: in every state the asset_id set of the table is a subset of the sys.id
\* set of the most recent successful fetch.
MirrorSubsetOfLatestFetch == ExtIds(mirror) \subseteq lastFetched

\* C8: the weeks list of the gallery page is the set of non-null weeks in use,
\* each once: NULL is never in it.
DistinctWeeksExcludeNull ==
  view # <<>> =>
     /\ Range(view[1].weeks) = {mirror[i].week : i \in DOMAIN mirror} \ {None}
     /\ \A i, j \in DOMAIN view[1].weeks : view[1].weeks[i] = view[1].weeks[j] => i = j

\* C9: the files of the gallery page are the rows tagged with the requested
\* week, in table order; a request without a week parameter, and one for a
\* week no row carries, gets no untagged row.
ListByWeekExact ==
  view # <<>> =>
     view[1].files =
        SelectSeq(mirror, LAMBDA row : row.week # None /\ row.week = view[1].week)

\* a step of update_img_week keeps the rows and their order; no step changes
\* a row that has a week other than by deleting it
ConcurrentStep ==
  /\ (tpc' # tpc) =>
        /\ Len(mirror') = Len(mirror)
        /\ \A i \in DOMAIN mirror : mirror'[i].asset_id = mirror[i].asset_id
  /\ \A i \in DOMAIN mirror :
        (mirror[i].week # None) =>
           \A j \in DOMAIN mirror' :
              (mirror'[j].asset_id = mirror[i].asset_id) => (mirror'[j] = mirror[i])

\* C10: with one update_gallery and one update_img_week overlapping, a completed
\* pass leaves the asset_id set equal to its catalog, no asset_id is ever held
\* twice, no step of update_img_week adds, removes or reorders a row, and no
\* step changes the week of a row that has one.
ConcurrentSafety ==
  /\ [](rpc = "done" => ExtIds(mirror) = ItemIds(content))
  /\ [](\A i, j \in DOMAIN mirror : mirror[i].asset_id = mirror[j].asset_id => i = j)
  /\ [][ConcurrentStep]_vars

\* both requests are over: the pass deleted one row update_img_week had marked,
\* whose UPDATE then matched nothing, and the tagging of another row went in
ConcurrentSafety_witness ==
  /\ ~singleFlight
  /\ rpc = "done" /\ tpc = "done"
  /\ \E i \in DOMAIN image_db :
       /\ image_db[i].id \in t_dirty
       /\ image_db[i].id \notin RowIds(mirror)
       /\ image_db[i].asset_id \notin ExtIds(mirror)
  /\ \E j \in DOMAIN mirror : mirror[j].id \in t_dirty /\ mirror[j].week = tweek

====
